---- MODULE Spec2Model ----
(***************************************************************************)
(* Model of python/benchmark.py: main() runs three benchmark calls one     *)
(* after another (pandas with selected columns, pandas with the full CSV,  *)
(* ClickHouse), each made of warmup iterations, measured iterations and a  *)
(* return statement that summarises the recorded samples, and then prints  *)
(* a comparison with two speedup ratios.                                   *)
(*                                                                         *)
(* Durations are whole clock ticks.  time.perf_counter() has an arbitrary  *)
(* epoch and the code only uses differences between a "..._start" reading  *)
(* and the next reading, so the clock is a stopwatch: the start reading    *)
(* sets it to 0 and opens the phase, a library call made while a phase is  *)
(* open advances it, and "perf_counter() - ..._start" reads it, closes the *)
(* phase and clears it.  Ticks that pass while no phase is open are read   *)
(* by nothing and are not counted.  Means and medians are exact fractions. *)
(***************************************************************************)
EXTENDS Integers, Sequences, FiniteSets, TLC

VARIABLES
    args,            \* parsed command line: iterations, warmup, output names
    pc,              \* position of the single thread of control
    path,            \* the call of main in progress: 1, 2, 3; 4 is the report
    w,               \* warmup loop counter
    i,               \* measured loop counter
    clock,           \* ticks since the latest ..._start reading
    open,            \* timed phases whose start was read and whose end was not
    load_elapsed,    \* local of benchmark_pandas_approach
    query_elapsed,   \* local of benchmark_clickhouse_approach
    load_times, compute_times, query_times, save_times, total_times,
    results_df,
    ret,             \* value of the return statement of the latest call
    stats,           \* what main keeps of each call's result
    written,         \* the to_csv calls that succeeded, in order
    report,          \* the speedup lines of main
    error,           \* the exception that ended the process, or "none"
    warm_started, warm_finished, meas_started, meas_finished,
    oplog            \* library calls of the measured iteration in progress

vars == <<args, pc, path, w, i, clock, open, load_elapsed, query_elapsed,
          load_times, compute_times, query_times, save_times, total_times,
          results_df, ret, stats, written, report, error,
          warm_started, warm_finished, meas_started, meas_finished, oplog>>

locals == <<w, i, load_elapsed, query_elapsed, load_times, compute_times,
            query_times, save_times, total_times, results_df>>

ghosts == <<warm_started, warm_finished, meas_started, meas_finished>>

\* ------------------------------------------------------------------ bounds

MaxIter == 2
MaxWarmup == 1
MaxDur == 1
MaxTicks == 3
MaxSamples == 3

SampleValues == {0, 10, 20, 30}

Paths == 1 .. 3

\* Python's None as the value of results_df.
None == "None"

\* A name that is not bound yet, or is bound to x.
Unset == <<>>
Set(x) == <<x>>
Val(o) == o[1]

\* ------------------------------------------------------------ file names

DotCsv == <<".", "c", "s", "v">>
FullCsv == <<"_", "f", "u", "l", "l">> \o DotCsv
Results == <<"r", "e", "s", "u", "l", "t", "s">>
ResultsPandas == Results \o <<"_", "p", "a", "n", "d", "a", "s">>
ResultsClickhouse == Results \o <<"_", "c", "l", "i", "c", "k", "h", "o", "u", "s", "e">>

DefaultPandasOutput == ResultsPandas \o DotCsv
DefaultClickhouseOutput == ResultsClickhouse \o DotCsv

\* Values tried for <<--csv-output-pandas, --csv-output-clickhouse>>: the
\* defaults, a pandas name without ".csv", and a ClickHouse name equal to
\* the name of the first and of the second pandas call.
OutputChoices ==
    {<<DefaultPandasOutput, DefaultClickhouseOutput>>,
     <<Results, DefaultClickhouseOutput>>,
     <<DefaultPandasOutput, DefaultPandasOutput>>,
     <<DefaultPandasOutput, ResultsPandas \o FullCsv>>}

\* str.replace(old, new): every non-overlapping occurrence, left to right.
RECURSIVE Replace(_, _, _)
Replace(s, old, new) ==
    IF Len(s) < Len(old) THEN s
    ELSE IF SubSeq(s, 1, Len(old)) = old
         THEN new \o Replace(SubSeq(s, Len(old) + 1, Len(s)), old, new)
         ELSE <<Head(s)>> \o Replace(Tail(s), old, new)

\* The output_file argument main passes to each call.
OutputFile(p) ==
    CASE p = 1 -> args.csv_output_pandas
      [] p = 2 -> Replace(args.csv_output_pandas, DotCsv, FullCsv)
      [] OTHER -> args.csv_output_clickhouse

\* ------------------------------------------------------------ statistics

RECURSIVE GCD(_, _)
GCD(a, b) == IF b = 0 THEN a ELSE GCD(b, a % b)

\* An exact non-negative fraction in lowest terms.
Frac(n, d) == LET g == GCD(n, d) IN [num |-> n \div g, den |-> d \div g]

RECURSIVE Sum(_)
Sum(s) == IF s = <<>> THEN 0 ELSE Head(s) + Sum(Tail(s))

RECURSIVE Insert(_, _)
Insert(x, s) ==
    IF s = <<>> THEN <<x>>
    ELSE IF x <= Head(s) THEN <<x>> \o s
         ELSE <<Head(s)>> \o Insert(x, Tail(s))

RECURSIVE Sorted(_)
Sorted(s) == IF s = <<>> THEN <<>> ELSE Insert(Head(s), Sorted(Tail(s)))

\* statistics.mean of a non-empty list.
Mean(data) == Frac(Sum(data), Len(data))

\* Faulty variant: the median taken without sorting the data first.
Median_unsorted(data) ==
    LET n == Len(data)
    IN  IF n % 2 = 1 THEN Frac(data[n \div 2 + 1], 1)
        ELSE Frac(data[n \div 2] + data[n \div 2 + 1], 2)

\* statistics.median of a non-empty list.
Median(data) ==
    LET s == Sorted(data)
        n == Len(data)
    IN  IF n % 2 = 1 THEN Frac(s[n \div 2 + 1], 1)
        ELSE Frac(s[n \div 2] + s[n \div 2 + 1], 2)

Min(data) == CHOOSE x \in {data[k] : k \in DOMAIN data} :
                 \A k \in DOMAIN data : x <= data[k]

Max(data) == CHOOSE x \in {data[k] : k \in DOMAIN data} :
                 \A k \in DOMAIN data : x >= data[k]

Summary(data) ==
    [mean |-> Mean(data), median |-> Median(data),
     min |-> Min(data), max |-> Max(data)]

\* -------------------------------------------------------- loop conditions

\* Faulty variant: the warmup loop stops one iteration early.
WarmupRemaining_short == w < args.warmup - 1

\* for _ in range(warmup)
WarmupRemaining == w < args.warmup

\* Faulty variant: the measured loop also runs once per warmup iteration.
MeasuredRemaining_plus_warmup == i < args.iterations + args.warmup

\* for i in range(iterations)
MeasuredRemaining == i < args.iterations

\* Faulty variant: the output is written in every measured iteration.
IsLastIteration_every == i <= args.iterations - 1

\* if i == iterations - 1
IsLastIteration == i = args.iterations - 1

Bump(f, p) == [f EXCEPT ![p] = @ + 1]

\* Faulty variant: the failing iteration is skipped and the loop goes on.
Raise_skip(e) ==
    /\ error' = e
    /\ pc' = "loop"
    /\ i' = i + 1
    /\ UNCHANGED <<args, path, clock, open, ret, stats, written, report, oplog,
                   w, load_elapsed, query_elapsed, load_times, compute_times,
                   query_times, save_times, total_times, results_df>>

\* Faulty variant: main catches the exception and goes on with the next call.
Raise_next_call(e) ==
    /\ error' = e
    /\ pc' = "call"
    /\ path' = path + 1
    /\ w' = 0 /\ i' = 0 /\ load_elapsed' = 0 /\ query_elapsed' = 0
    /\ load_times' = <<>> /\ compute_times' = <<>>
    /\ query_times' = <<>> /\ save_times' = <<>> /\ total_times' = <<>>
    /\ results_df' = None
    /\ UNCHANGED <<args, clock, open, ret, stats, written, report, oplog>>

\* An uncaught exception: no handler anywhere in benchmark.py, so it unwinds
\* the benchmark function (its locals are gone) and main, and the process
\* ends with a traceback.
Raise(e) ==
    /\ error' = e
    /\ pc' = "failed"
    /\ w' = 0 /\ i' = 0 /\ load_elapsed' = 0 /\ query_elapsed' = 0
    /\ load_times' = <<>> /\ compute_times' = <<>>
    /\ query_times' = <<>> /\ save_times' = <<>> /\ total_times' = <<>>
    /\ results_df' = None
    /\ UNCHANGED <<args, path, clock, open, ret, stats, written, report, oplog>>

\* Ticks counted so far by the call in progress: the recorded samples, the
\* phase duration read and not yet recorded, and the running stopwatch.
Spent ==
    Sum(load_times) + Sum(compute_times) + Sum(query_times) + Sum(save_times)
    + (IF pc \in {"compute_start", "compute", "compute_end"}
       THEN load_elapsed ELSE 0)
    + (IF pc \in {"save_start", "convert", "write", "save_end"}
       THEN query_elapsed ELSE 0)
    + clock

\* What a library call may take: up to MaxDur ticks, and no call of a
\* benchmark function counts more than MaxTicks ticks in all.
Durations == {d \in 0 .. MaxDur : Spent + d <= MaxTicks}

\* d ticks pass; they count when a timed phase is open.
Counted(d) == IF open = {} THEN 0 ELSE d

\* A library call of a measured iteration that takes d ticks.
Ran(op, d) ==
    /\ clock' = clock + Counted(d)
    /\ oplog' = Append(oplog, [op |-> op, during |-> open, d |-> Counted(d)])

\* ------------------------------------------------------------------- main

Init ==
    /\ \E n \in 0 .. MaxIter, m \in 0 .. MaxWarmup, o \in OutputChoices :
           args = [iterations |-> n, warmup |-> m,
                   csv_output_pandas |-> o[1],
                   csv_output_clickhouse |-> o[2]]
    /\ pc = "connect"
    /\ path = 1
    /\ w = 0 /\ i = 0 /\ clock = 0 /\ open = {}
    /\ load_elapsed = 0 /\ query_elapsed = 0
    /\ load_times = <<>> /\ compute_times = <<>>
    /\ query_times = <<>> /\ save_times = <<>> /\ total_times = <<>>
    /\ results_df = None
    /\ ret = Unset
    /\ stats = [p \in Paths |-> Unset]
    /\ written = <<>>
    /\ report = Unset
    /\ error = "none"
    /\ warm_started = [p \in Paths |-> 0]
    /\ warm_finished = [p \in Paths |-> 0]
    /\ meas_started = [p \in Paths |-> 0]
    /\ meas_finished = [p \in Paths |-> 0]
    /\ oplog = <<>>

\* client = get_client(...)
Connect ==
    /\ pc = "connect"
    /\ \/ /\ pc' = "call"
          /\ UNCHANGED <<args, path, clock, open, ret, stats, written, report,
                         error, oplog, locals>>
       \/ Raise("get_client")
    /\ UNCHANGED ghosts

\* What main reads again of a call's result: total_mean for the speedup
\* ratios and results for the printed tables (the other keys are only
\* formatted into the comparison table).
Kept(r) == [total_mean |-> r.total_mean, results |-> r.results]

\* ------------------------------------------------ benchmark_pandas_approach

PandasEnter ==
    /\ pc = "call" /\ path \in {1, 2}
    /\ load_times' = <<>> /\ compute_times' = <<>> /\ total_times' = <<>>
    /\ results_df' = None
    /\ w' = 0 /\ i' = 0
    /\ ret' = Unset
    /\ pc' = "warmup"
    /\ UNCHANGED <<args, path, clock, open, load_elapsed, query_elapsed,
                   query_times, save_times, stats, written, report, error,
                   oplog, ghosts>>

\* Warmup: df = pd.read_csv(...)
PandasWarmLoad ==
    /\ pc = "warmup" /\ path \in {1, 2}
    /\ WarmupRemaining
    /\ warm_started' = Bump(warm_started, path)
    /\ \/ /\ \E d \in Durations : clock' = clock + Counted(d)
          /\ pc' = "warm_compute"
          /\ UNCHANGED <<args, path, open, ret, stats, written, report, error,
                         oplog, locals>>
       \/ Raise("read_csv")
    /\ UNCHANGED <<warm_finished, meas_started, meas_finished>>

\* Warmup: _ = df.groupby(...).agg(...)
PandasWarmCompute ==
    /\ pc = "warm_compute"
    /\ \/ /\ \E d \in Durations : clock' = clock + Counted(d)
          /\ w' = w + 1
          /\ warm_finished' = Bump(warm_finished, path)
          /\ pc' = "warmup"
          /\ UNCHANGED <<args, path, open, ret, stats, written, report, error,
                         oplog, i, load_elapsed, query_elapsed, load_times,
                         compute_times, query_times, save_times, total_times,
                         results_df>>
       \/ Raise("groupby") /\ UNCHANGED warm_finished
    /\ UNCHANGED <<warm_started, meas_started, meas_finished>>

\* The warmup loop is exhausted: "Running benchmark ..."
PandasBenchmark ==
    /\ pc = "warmup" /\ path \in {1, 2}
    /\ ~WarmupRemaining
    /\ pc' = "loop"
    /\ UNCHANGED <<args, path, clock, open, ret, stats, written, report,
                   error, oplog, locals, ghosts>>

\* load_start = time.perf_counter()
PandasLoadStart ==
    /\ pc = "loop" /\ path \in {1, 2}
    /\ MeasuredRemaining
    /\ clock' = 0
    /\ open' = open \cup {"load"}
    /\ oplog' = <<>>
    /\ meas_started' = Bump(meas_started, path)
    /\ pc' = "load"
    /\ UNCHANGED <<args, path, ret, stats, written, report, error, locals,
                   warm_started, warm_finished, meas_finished>>

\* df = pd.read_csv(...)
PandasLoad ==
    /\ pc = "load"
    /\ \/ /\ \E d \in Durations : Ran("read_csv", d)
          /\ pc' = "load_end"
          /\ UNCHANGED <<args, path, open, ret, stats, written, report, error,
                         locals>>
       \/ Raise("read_csv")
    /\ UNCHANGED ghosts

\* load_elapsed = time.perf_counter() - load_start
PandasLoadEnd ==
    /\ pc = "load_end"
    /\ load_elapsed' = clock
    /\ clock' = 0
    /\ open' = open \ {"load"}
    /\ pc' = "compute_start"
    /\ UNCHANGED <<args, path, ret, stats, written, report, error,
                   oplog, w, i, query_elapsed, load_times, compute_times,
                   query_times, save_times, total_times, results_df, ghosts>>

\* compute_start = time.perf_counter()
PandasComputeStart ==
    /\ pc = "compute_start"
    /\ clock' = 0
    /\ open' = open \cup {"compute"}
    /\ pc' = "compute"
    /\ UNCHANGED <<args, path, ret, stats, written, report, error, oplog,
                   locals, ghosts>>

\* grouped = df.groupby(...).agg(...); columns; reset_index()
PandasCompute ==
    /\ pc = "compute"
    /\ \/ /\ \E d \in Durations : Ran("groupby", d)
          /\ pc' = "compute_end"
          /\ UNCHANGED <<args, path, open, ret, stats, written, report, error,
                         locals>>
       \/ Raise("groupby")
    /\ UNCHANGED ghosts

\* compute_elapsed = time.perf_counter() - compute_start;
\* total_elapsed = load_elapsed + compute_elapsed; the three appends
PandasComputeEnd ==
    /\ pc = "compute_end"
    /\ LET compute_elapsed == clock
           total_elapsed == load_elapsed + compute_elapsed
       IN  /\ load_times' = Append(load_times, load_elapsed)
           /\ compute_times' = Append(compute_times, compute_elapsed)
           /\ total_times' = Append(total_times, total_elapsed)
    /\ clock' = 0
    /\ open' = open \ {"compute"}
    /\ pc' = "save"
    /\ UNCHANGED <<args, path, ret, stats, written, report, error,
                   oplog, w, i, load_elapsed, query_elapsed, query_times,
                   save_times, results_df, ghosts>>

\* if i == iterations - 1: grouped.to_csv(output_file); results_df = grouped
\* and the end of the loop body
PandasSave ==
    /\ pc = "save"
    /\ \/ /\ IsLastIteration
          /\ \/ /\ \E d \in Durations : Ran("to_csv", d)
                /\ written' = Append(written,
                       [path |-> path, file |-> OutputFile(path),
                        iteration |-> i])
                /\ results_df' = "grouped"
                /\ i' = i + 1
                /\ meas_finished' = Bump(meas_finished, path)
                /\ pc' = "loop"
                /\ UNCHANGED <<args, path, open, ret, stats, report, error, w,
                               load_elapsed, query_elapsed, load_times,
                               compute_times, query_times, save_times,
                               total_times>>
             \/ Raise("to_csv") /\ UNCHANGED meas_finished
       \/ /\ ~IsLastIteration
          /\ i' = i + 1
          /\ meas_finished' = Bump(meas_finished, path)
          /\ pc' = "loop"
          /\ UNCHANGED <<args, path, clock, open, ret, stats, written, report,
                         error, oplog, w, load_elapsed, query_elapsed,
                         load_times, compute_times, query_times, save_times,
                         total_times, results_df>>
    /\ UNCHANGED <<warm_started, warm_finished, meas_started>>

\* return {...}: statistics.mean(load_times) is evaluated first and raises
\* StatisticsError on an empty list.
PandasReturn ==
    /\ pc = "loop" /\ path \in {1, 2}
    /\ ~MeasuredRemaining
    /\ IF load_times = <<>>
       THEN Raise("StatisticsError")
       ELSE LET r == [load_times |-> load_times,
                      compute_times |-> compute_times,
                      total_times |-> total_times,
                      load |-> Summary(load_times),
                      compute |-> Summary(compute_times),
                      total |-> Summary(total_times),
                      total_mean |-> Mean(total_times),
                      results |-> results_df]
            IN  /\ ret' = Set(r)
                /\ stats' = [stats EXCEPT ![path] = Set(Kept(r))]
                /\ path' = path + 1
                /\ pc' = "call"
                /\ load_times' = <<>> /\ compute_times' = <<>>
                /\ total_times' = <<>> /\ results_df' = None
                /\ w' = 0 /\ i' = 0 /\ load_elapsed' = 0
                /\ oplog' = <<>>
                /\ UNCHANGED <<args, clock, open, query_elapsed, query_times,
                               save_times, written, report, error>>
    /\ UNCHANGED ghosts

\* -------------------------------------------- benchmark_clickhouse_approach

ClickhouseEnter ==
    /\ pc = "call" /\ path = 3
    /\ query_times' = <<>> /\ save_times' = <<>> /\ total_times' = <<>>
    /\ results_df' = None
    /\ w' = 0 /\ i' = 0
    /\ ret' = Unset
    /\ pc' = "warmup"
    /\ UNCHANGED <<args, path, clock, open, load_elapsed, query_elapsed,
                   load_times, compute_times, stats, written, report, error,
                   oplog, ghosts>>

\* Warmup: _ = client.query(query)
ClickhouseWarmQuery ==
    /\ pc = "warmup" /\ path = 3
    /\ WarmupRemaining
    /\ warm_started' = Bump(warm_started, path)
    /\ \/ /\ \E d \in Durations : clock' = clock + Counted(d)
          /\ w' = w + 1
          /\ warm_finished' = Bump(warm_finished, path)
          /\ UNCHANGED <<args, pc, path, open, ret, stats, written, report,
                         error, oplog, i, load_elapsed, query_elapsed,
                         load_times, compute_times, query_times, save_times,
                         total_times, results_df>>
       \/ Raise("query") /\ UNCHANGED warm_finished
    /\ UNCHANGED <<meas_started, meas_finished>>

\* The warmup loop is exhausted: "Running benchmark ..."
ClickhouseBenchmark ==
    /\ pc = "warmup" /\ path = 3
    /\ ~WarmupRemaining
    /\ pc' = "loop"
    /\ UNCHANGED <<args, path, clock, open, ret, stats, written, report,
                   error, oplog, locals, ghosts>>

\* query_start = time.perf_counter()
ClickhouseQueryStart ==
    /\ pc = "loop" /\ path = 3
    /\ MeasuredRemaining
    /\ clock' = 0
    /\ open' = open \cup {"query"}
    /\ oplog' = <<>>
    /\ meas_started' = Bump(meas_started, path)
    /\ pc' = "query"
    /\ UNCHANGED <<args, path, ret, stats, written, report, error, locals,
                   warm_started, warm_finished, meas_finished>>

\* result = client.query(query)
ClickhouseQuery ==
    /\ pc = "query"
    /\ \/ /\ \E d \in Durations : Ran("query", d)
          /\ pc' = "query_end"
          /\ UNCHANGED <<args, path, open, ret, stats, written, report, error,
                         locals>>
       \/ Raise("query")
    /\ UNCHANGED ghosts

\* query_elapsed = time.perf_counter() - query_start
ClickhouseQueryEnd ==
    /\ pc = "query_end"
    /\ query_elapsed' = clock
    /\ clock' = 0
    /\ open' = open \ {"query"}
    /\ pc' = "save_start"
    /\ UNCHANGED <<args, path, ret, stats, written, report, error,
                   oplog, w, i, load_elapsed, load_times, compute_times,
                   query_times, save_times, total_times, results_df, ghosts>>

\* Faulty variant: save_start is read after the conversion to a DataFrame.
ClickhouseSaveStart_late ==
    /\ pc = "save_start"
    /\ oplog' = Append(oplog, [op |-> "DataFrame", during |-> open, d |-> 0])
    /\ results_df' = "result_rows"
    /\ clock' = 0
    /\ open' = open \cup {"save"}
    /\ pc' = "write"
    /\ UNCHANGED <<args, path, ret, stats, written, report, error, w, i,
                   load_elapsed, query_elapsed, load_times, compute_times,
                   query_times, save_times, total_times, ghosts>>

\* save_start = time.perf_counter()
ClickhouseSaveStart ==
    /\ pc = "save_start"
    /\ clock' = 0
    /\ open' = open \cup {"save"}
    /\ pc' = "convert"
    /\ UNCHANGED <<args, path, ret, stats, written, report, error, oplog,
                   locals, ghosts>>

\* results_df = pd.DataFrame(result.result_rows, columns=[...])
ClickhouseConvert ==
    /\ pc = "convert"
    /\ \/ /\ \E d \in Durations : Ran("DataFrame", d)
          /\ results_df' = "result_rows"
          /\ pc' = "write"
          /\ UNCHANGED <<args, path, open, ret, stats, written, report, error,
                         w, i, load_elapsed, query_elapsed, load_times,
                         compute_times, query_times, save_times, total_times>>
       \/ Raise("DataFrame")
    /\ UNCHANGED ghosts

\* if i == iterations - 1: results_df.to_csv(output_file, index=False)
ClickhouseWrite ==
    /\ pc = "write"
    /\ \/ /\ IsLastIteration
          /\ \/ /\ \E d \in Durations : Ran("to_csv", d)
                /\ written' = Append(written,
                       [path |-> path, file |-> OutputFile(path),
                        iteration |-> i])
                /\ pc' = "save_end"
                /\ UNCHANGED <<args, path, open, ret, stats, report, error,
                               locals>>
             \/ Raise("to_csv")
       \/ /\ ~IsLastIteration
          /\ pc' = "save_end"
          /\ UNCHANGED <<args, path, clock, open, ret, stats, written, report,
                         error, oplog, locals>>
    /\ UNCHANGED ghosts

\* save_elapsed = time.perf_counter() - save_start;
\* total_elapsed = query_elapsed + save_elapsed; the three appends
\* and the end of the loop body
ClickhouseSaveEnd ==
    /\ pc = "save_end"
    /\ LET save_elapsed == clock
           total_elapsed == query_elapsed + save_elapsed
       IN  /\ query_times' = Append(query_times, query_elapsed)
           /\ save_times' = Append(save_times, save_elapsed)
           /\ total_times' = Append(total_times, total_elapsed)
    /\ clock' = 0
    /\ open' = open \ {"save"}
    /\ i' = i + 1
    /\ meas_finished' = Bump(meas_finished, path)
    /\ pc' = "loop"
    /\ UNCHANGED <<args, path, ret, stats, written, report, error,
                   oplog, w, load_elapsed, query_elapsed, load_times,
                   compute_times, results_df, warm_started, warm_finished,
                   meas_started>>

\* return {...}: statistics.mean(query_times) is evaluated first and raises
\* StatisticsError on an empty list.
ClickhouseReturn ==
    /\ pc = "loop" /\ path = 3
    /\ ~MeasuredRemaining
    /\ IF query_times = <<>>
       THEN Raise("StatisticsError")
       ELSE LET r == [query_times |-> query_times,
                      save_times |-> save_times,
                      total_times |-> total_times,
                      query |-> Summary(query_times),
                      save |-> Summary(save_times),
                      total |-> Summary(total_times),
                      total_mean |-> Mean(total_times),
                      results |-> results_df]
            IN  /\ ret' = Set(r)
                /\ stats' = [stats EXCEPT ![path] = Set(Kept(r))]
                /\ path' = path + 1
                /\ pc' = "call"
                /\ query_times' = <<>> /\ save_times' = <<>>
                /\ total_times' = <<>> /\ results_df' = None
                /\ w' = 0 /\ i' = 0 /\ query_elapsed' = 0
                /\ oplog' = <<>>
                /\ UNCHANGED <<args, clock, open, load_elapsed, load_times,
                               compute_times, written, report, error>>
    /\ UNCHANGED ghosts

\* ------------------------------------------------------- main, the report

\* a / b on floats: ZeroDivisionError when b is 0.0
Div(a, b) == Frac(a.num * b.den, a.den * b.num)

\* The tables, then speedup_selective and speedup_full and the four lines
\* printed from them.
Report ==
    /\ pc = "call" /\ path = 4
    /\ IF Val(stats[3]).total_mean.num = 0
       THEN Raise("ZeroDivisionError")
       ELSE /\ report' = Set(
                   [speedup_selective |->
                        Div(Val(stats[1]).total_mean, Val(stats[3]).total_mean),
                    speedup_full |->
                        Div(Val(stats[2]).total_mean, Val(stats[3]).total_mean)])
            /\ pc' = "done"
            /\ UNCHANGED <<args, path, clock, open, ret, stats, written,
                           error, oplog, locals>>
    /\ UNCHANGED ghosts

Next ==
    \/ Connect
    \/ PandasEnter \/ PandasWarmLoad \/ PandasWarmCompute \/ PandasBenchmark
    \/ PandasLoadStart \/ PandasLoad \/ PandasLoadEnd
    \/ PandasComputeStart \/ PandasCompute \/ PandasComputeEnd
    \/ PandasSave \/ PandasReturn
    \/ ClickhouseEnter \/ ClickhouseWarmQuery \/ ClickhouseBenchmark
    \/ ClickhouseQueryStart \/ ClickhouseQuery \/ ClickhouseQueryEnd
    \/ ClickhouseSaveStart \/ ClickhouseConvert \/ ClickhouseWrite
    \/ ClickhouseSaveEnd \/ ClickhouseReturn
    \/ Report

Spec == Init /\ [][Next]_vars

\* ------------------------------------------- the return statements alone

RECURSIVE Lists(_, _)
Lists(S, n) ==
    IF n = 0 THEN {<<>>}
    ELSE {Append(l, x) : l \in Lists(S, n - 1), x \in S}

RECURSIVE Added(_, _)
Added(a, b) ==
    IF a = <<>> THEN <<>>
    ELSE <<Head(a) + Head(b)>> \o Added(Tail(a), Tail(b))

\* A call that has left its measured loop with n samples per list: the
\* first pandas call for any n, the ClickHouse call for n >= 1 (main reaches
\* it only after both pandas calls returned).
InitStats ==
    \E p \in {1, 3}, n \in 0 .. MaxSamples :
    \E first \in Lists(SampleValues, n), second \in Lists({0, 10}, n) :
        /\ p = 3 => n >= 1
        /\ args = [iterations |-> n, warmup |-> 0,
                   csv_output_pandas |-> DefaultPandasOutput,
                   csv_output_clickhouse |-> DefaultClickhouseOutput]
        /\ pc = "loop" /\ path = p
        /\ w = 0 /\ i = n /\ clock = 0 /\ open = {}
        /\ load_elapsed = 0
        /\ query_elapsed = (IF p = 3 THEN first[n] ELSE 0)
        /\ load_times = (IF p = 1 THEN first ELSE <<>>)
        /\ compute_times = (IF p = 1 THEN second ELSE <<>>)
        /\ query_times = (IF p = 3 THEN first ELSE <<>>)
        /\ save_times = (IF p = 3 THEN second ELSE <<>>)
        /\ total_times = Added(first, second)
        /\ results_df = (IF n = 0 THEN None
                         ELSE IF p = 1 THEN "grouped" ELSE "result_rows")
        /\ ret = Unset
        /\ stats = [q \in Paths |->
                      IF q < p
                      THEN Set([total_mean |-> Frac(10, 1), results |-> "grouped"])
                      ELSE Unset]
        /\ written = [q \in 1 .. (IF n = 0 THEN 0 ELSE p) |->
                        [path |-> q, file |-> OutputFile(q), iteration |-> n - 1]]
        /\ report = Unset
        /\ error = "none"
        /\ warm_started = [q \in Paths |-> 0]
        /\ warm_finished = [q \in Paths |-> 0]
        /\ meas_started = [q \in Paths |-> IF q <= p THEN n ELSE 0]
        /\ meas_finished = [q \in Paths |-> IF q <= p THEN n ELSE 0]
        /\ oplog = <<>>

NextStats == PandasReturn \/ ClickhouseReturn

SpecStats == InitStats /\ [][NextStats]_vars

\* ------------------------------------------------------------- properties

\* The three lists of the returned dictionary, and their summaries.
ReturnedLists ==
    LET r == Val(ret)
    IN  IF "load_times" \in DOMAIN r
        THEN <<r.load_times, r.compute_times, r.total_times>>
        ELSE <<r.query_times, r.save_times, r.total_times>>

ReturnedSummaries ==
    LET r == Val(ret)
    IN  IF "load_times" \in DOMAIN r
        THEN <<r.load, r.compute, r.total>>
        ELSE <<r.query, r.save, r.total>>

\* C1: a call that returns, for iterations >= 1 and any warmup >= 0, returns
\* exactly `iterations` samples in each per-phase list and in the total
\* list; warmup iterations add none.
C1_ExactlyIterationCountSamples ==
    ret # Unset =>
        /\ args.iterations >= 1
        /\ \A k \in 1 .. 3 : Len(ReturnedLists[k]) = args.iterations

C1_Witness ==
    /\ ret # Unset
    /\ args.iterations = 2 /\ args.warmup = 1
    /\ "query_times" \in DOMAIN Val(ret)
    /\ warm_finished[3] = 1

\* x is the k-th smallest element of data (1-based, with repetitions).
KthSmallest(data, k, x) ==
    /\ \E j \in DOMAIN data : data[j] = x
    /\ Cardinality({j \in DOMAIN data : data[j] < x}) < k
    /\ k <= Cardinality({j \in DOMAIN data : data[j] <= x})

IsMean(m, data) == m.num * Len(data) = Sum(data) * m.den

IsMedian(m, data) ==
    LET n == Len(data)
    IN  IF n % 2 = 1
        THEN \E x \in {data[j] : j \in DOMAIN data} :
                 /\ KthSmallest(data, (n + 1) \div 2, x)
                 /\ m.num = x * m.den
        ELSE \E a, b \in {data[j] : j \in DOMAIN data} :
                 /\ KthSmallest(data, n \div 2, a)
                 /\ KthSmallest(data, n \div 2 + 1, b)
                 /\ 2 * m.num = (a + b) * m.den

IsMin(x, data) ==
    /\ \E j \in DOMAIN data : data[j] = x
    /\ \A j \in DOMAIN data : x <= data[j]

IsMax(x, data) ==
    /\ \E j \in DOMAIN data : data[j] = x
    /\ \A j \in DOMAIN data : x >= data[j]

\* C7: the summary returned for each non-empty list of durations is the
\* arithmetic mean, the median, the minimum and the maximum of exactly that
\* list ([10, 20, 30] gives 20, 20, 10, 30); with empty lists the return
\* statement fails (statistics.StatisticsError, the code's error for an
\* empty sample set) and returns nothing.
C7_SummaryIsMeanMedianMinMax ==
    /\ ret # Unset =>
           \A k \in 1 .. 3 :
               LET data == ReturnedLists[k]
                   s == ReturnedSummaries[k]
               IN  /\ data # <<>>
                   /\ IsMean(s.mean, data)
                   /\ IsMedian(s.median, data)
                   /\ IsMin(s.min, data)
                   /\ IsMax(s.max, data)
                   /\ data = <<10, 20, 30>> =>
                          s = [mean |-> [num |-> 20, den |-> 1],
                               median |-> [num |-> 20, den |-> 1],
                               min |-> 10, max |-> 30]
    /\ (args.iterations = 0 /\ pc # "loop") =>
           /\ pc = "failed"
           /\ error = "StatisticsError"
           /\ ret = Unset
    /\ pc = "failed" => args.iterations = 0

C7_Witness ==
    /\ ret # Unset
    /\ "load_times" \in DOMAIN Val(ret)
    /\ Val(ret).load_times = <<30, 10, 20>>
    /\ Val(ret).load.median = [num |-> 20, den |-> 1]
    /\ Val(ret).compute_times = <<0, 10>> \o <<0>>
    /\ Val(ret).compute.mean = [num |-> 10, den |-> 3]

\* C2 (as claimed): with iterations = 0 the run fails before any path
\* executes: when the failure for the empty sample set is raised, no warmup
\* iteration and no measured iteration has started.
C2_ZeroIterationsFailBeforeAnyExecution ==
    (args.iterations = 0 /\ error = "StatisticsError") =>
        \A p \in Paths : warm_started[p] = 0 /\ meas_started[p] = 0

WritesOf(p) == {k \in DOMAIN written : written[k].path = p}

\* C3: a call with iterations >= 1 that completes has written its output
\* file exactly once, in the last measured iteration (index iterations - 1);
\* no warmup iteration and no earlier measured iteration writes it.
C3_OutputWrittenOnceInLastIteration ==
    /\ \A k \in DOMAIN written :
           written[k].iteration = args.iterations - 1
    /\ \A p \in Paths :
           /\ Cardinality(WritesOf(p)) <= 1
           /\ stats[p] # Unset => Cardinality(WritesOf(p)) = 1
           /\ meas_finished[p] < args.iterations - 1 => WritesOf(p) = {}
    /\ pc \in {"warmup", "warm_compute"} => WritesOf(path) = {}

C3_Witness ==
    /\ args.iterations = 2 /\ args.warmup = 1
    /\ stats[3] # Unset
    /\ Len(written) = 3

\* The call in progress failed inside a measured iteration.
FailedInMeasured ==
    /\ pc = "failed"
    /\ path \in Paths
    /\ meas_started[path] > meas_finished[path]

AllListsEmpty ==
    /\ load_times = <<>> /\ compute_times = <<>>
    /\ query_times = <<>> /\ save_times = <<>> /\ total_times = <<>>

C5_ZeroBaselineDoesNotRaise ==
    (stats[3] # Unset /\ Val(stats[3]).total_mean.num = 0) =>
        error # "ZeroDivisionError"

InProgress(p) ==
    (warm_started[p] - warm_finished[p]) + (meas_started[p] - meas_finished[p])

\* C8: execution is strictly sequential: at most one iteration is in
\* progress at any time; in a call every warmup iteration has finished
\* before the first measured iteration starts, and measured iteration i has
\* finished before iteration i + 1 starts; every iteration of a call has
\* finished before the next call starts an iteration.
C8_StrictlySequential ==
    /\ InProgress(1) + InProgress(2) + InProgress(3) \in {0, 1}
    /\ \A p \in Paths :
           /\ InProgress(p) \in {0, 1}
           /\ meas_started[p] > 0 =>
                  /\ warm_started[p] = args.warmup
                  /\ warm_finished[p] = args.warmup
    /\ \A p \in {2, 3} :
           (warm_started[p] > 0 \/ meas_started[p] > 0) =>
               /\ warm_finished[p - 1] = args.warmup
               /\ meas_started[p - 1] = args.iterations
               /\ meas_finished[p - 1] = args.iterations
               /\ stats[p - 1] # Unset

C8_Witness ==
    /\ args.iterations = 2 /\ args.warmup = 1
    /\ path = 3
    /\ meas_started[3] = 2 /\ meas_finished[3] = 1

RECURSIVE TicksOf(_, _)
TicksOf(log, ops) ==
    IF log = <<>> THEN 0
    ELSE (IF Head(log).op \in ops THEN Head(log).d ELSE 0)
         + TicksOf(Tail(log), ops)

OpsOf(log) == [k \in DOMAIN log |-> log[k].op]

\* C9: in a measured iteration of the ClickHouse call the query runs inside
\* the query phase, the conversion to a DataFrame and (in the last
\* iteration) the to_csv write run inside the save phase, and the query
\* phase is closed before the save phase opens; the save sample of the last
\* iteration includes the write and the earlier save samples include none.
C9_QueryAndSavePhases ==
    /\ Cardinality(open) <= 1
    /\ path = 3 =>
           /\ \A k \in DOMAIN oplog :
                  /\ oplog[k].op = "query" => oplog[k].during = {"query"}
                  /\ oplog[k].op \in {"DataFrame", "to_csv"} =>
                         oplog[k].during = {"save"}
           /\ \A j, k \in DOMAIN oplog :
                  (j < k /\ oplog[j].during = {"save"}) =>
                      oplog[k].during = {"save"}
    /\ (path = 3 /\ pc = "loop" /\ i >= 1) =>
           /\ OpsOf(oplog) = (IF i = args.iterations
                              THEN <<"query", "DataFrame", "to_csv">>
                              ELSE <<"query", "DataFrame">>)
           /\ query_times[i] = TicksOf(oplog, {"query"})
           /\ save_times[i] = TicksOf(oplog, {"DataFrame", "to_csv"})
           /\ total_times[i] = query_times[i] + save_times[i]

C9_Witness ==
    /\ path = 3 /\ pc = "loop"
    /\ args.iterations = 2 /\ i = 2
    /\ query_times = <<0, 1>>
    /\ save_times = <<0, 2>>
    /\ oplog[3] = [op |-> "to_csv", during |-> {"save"}, d |-> 1]

\* C10 (as claimed): after a complete run no two calls have written to the
\* same file name, whatever the two output names given on the command line.
C10_DistinctOutputFiles ==
    pc = "done" =>
        \A j, k \in DOMAIN written :
            j # k => written[j].file # written[k].file

====
